---- MODULE Spec2Model ----
(***************************************************************************)
(* Model of h3-hota-ai-assistant: the snapshot cache                       *)
(* (src/src/mcp_server/cache.py, GameStateCache) together with the threads *)
(* that use it: the watcher thread running the save-file handler           *)
(* (src/src/save_watcher/watcher.py) and the coordinator callback          *)
(* (src/h3_ai_advisor.py), the HTTP thread running the request handler     *)
(* (src/src/mcp_server/server.py, handlers.py), the main thread running    *)
(* the coordinator's start and stop, and a generic caller of the public    *)
(* update / get_latest / clear methods.                                    *)
(***************************************************************************)
EXTENDS Integers, Sequences, FiniteSets

VARIABLES
    cache_file,   \* GameStateCache.cache_file: a Path, or NoPath
    store,        \* "ok", or "ctor_raised" when __init__ raised
    _state,       \* GameStateCache._state: a dict (top level), or None
    last_update,  \* GameStateCache.last_update: a time, or NoTime
    lock,         \* GameStateCache._lock: the thread holding it, or Free
    heap,         \* the nested mutable lists of the dicts, by reference
    fs,           \* the files at the cache path and at the temporary path
    pc,           \* per thread: where it is in the method it runs
    local,        \* per thread: the dict it passes, or the value it got back
    hLast,        \* history: the last operation that wrote the entry
    hValue,       \* history: the value handed to update() by that operation
    request,      \* HTTP thread: the request being handled
    request_data, \* HTTP thread: the parsed body of the query being handled
    cached_at,    \* HTTP thread: the "cached_at" of the payload being built
    response,     \* the HTTP response sent by the last step, if it sent one
    hSeen,        \* history: what the Store held when this query read it
    wpc,          \* watcher thread: where it is in on_modified and the callback
    event,        \* watcher thread: the event being handled
    last_modified,\* SaveFileHandler.last_modified: per path, a time or NoTime
    game_state,   \* watcher thread: the GameState parsed, or NoSnapshot
    advice,       \* watcher thread: what get_advice returned
    hEv,          \* history of the event being handled
    hAccepted,    \* history: per path, when the parser was last invoked for it
    life,         \* main thread: where it is in H3AIAdvisor.start and stop
    observer,     \* SaveWatcher.observer: "new", "started" or "stopped"
    server,       \* MCPServer.server: "none", "serving" or "closed"
    existing,     \* process_existing_saves: what it found and did
    pending,      \* what H3AIAdvisor.start raises once its finally has run
    hStops,       \* history: the stop calls made, and whether each raised
    instance,     \* a GameState instance
    document      \* what to_dict() of the instance returned

storeVars == <<cache_file, store, _state, last_update, lock, heap, fs, pc,
               local, hLast, hValue>>

httpVars == <<request, request_data, cached_at, response, hSeen>>

watchVars == <<wpc, event, last_modified, game_state, advice, hEv, hAccepted>>

lifeVars == <<life, observer, server, existing, pending, hStops>>

docVars == <<instance, document>>

vars == <<storeVars, httpVars, watchVars, lifeVars, docVars>>

-----------------------------------------------------------------------------
(* Bounds of the model *)

MaxTurn == 2
MaxHeroes == 1
MaxClock == 1
MaxTick == 3

-----------------------------------------------------------------------------
(* Values *)

\* The watcher thread (the coordinator's callback), the HTTP thread, a caller of
\* the public methods, and a caller that keeps the dicts it passes and gets.
Threads == {"watcher", "query", "client", "owner"}

Free == "free"

\* Optional[...] = None
None == [tag |-> "None"]

\* Optional[datetime] = None, for last_update
NoTime == -1

Times == 0..MaxClock
Turns == 1..MaxTurn
\* One name per nested list: no more lists are alive than there are dicts, the
\* entry's and one per thread. NewList names a list just built.
Refs == 1..(Cardinality(Threads) + 1)

NewList == 0
Lists == 0..MaxHeroes

\* A top-level dict. "heroes" holds a reference to a list; keys = {} is the
\* dict with no keys.
Dict(t, r) == [tag |-> "dict", keys |-> {"turn", "heroes"}, turn |-> t, heroes |-> r]

EmptyDict == [tag |-> "dict", keys |-> {}, turn |-> 0, heroes |-> 0]

\* dict.copy(): a new top-level dict holding the same references.
Copy(d) == d

\* Python truth value of an Optional[dict]: None and {} are false.
Truthy(d) == d # None /\ d.keys # {}

\* The value of a dict with its nested list read through the heap `h`.
DeepIn(d, h) ==
    IF d = None \/ d.keys = {} THEN d
    ELSE [d EXCEPT !.heroes = h[d.heroes]]

Deep(d) == DeepIn(d, heap)

\* Paths: a stem and a suffix.
Path(stem, suffix) == [stem |-> stem, suffix |-> suffix]

NoPath == [stem |-> "", suffix |-> ""]

\* Path.with_suffix(s): the last suffix is replaced.
WithSuffix(p, s) == [p EXCEPT !.suffix = s]

ConfiguredPaths == {NoPath, Path("cache", ".json"), Path("cache", ".tmp")}

AllPaths == {Path("cache", ".json"), Path("cache", ".tmp")}

\* Files.
Absent == [kind |-> "absent", data |-> <<>>]

Unreadable == [kind |-> "unreadable", data |-> <<>>]

File(data) == [kind |-> "file", data |-> data]

Exists(f) == f.kind # "absent"

-----------------------------------------------------------------------------
(* Serialisation: json.dump / json.load and isoformat / fromisoformat *)

DigitStr == <<"0", "1", "2", "3", "4", "5", "6", "7", "8", "9">>

IsoStr == <<"2026-01-01T00:00:00", "2026-01-01T00:00:01", "2026-01-01T00:00:02",
            "2026-01-01T00:00:03", "2026-01-01T00:00:04", "2026-01-01T00:00:05">>

\* json text of an integer
IntToJson(n) == DigitStr[n + 1]

IsJsonInt(s) == \E n \in 0..9 : DigitStr[n + 1] = s

JsonToInt(s) == CHOOSE n \in 0..9 : DigitStr[n + 1] = s

\* datetime.isoformat()
IsoFormat(t) == IsoStr[t + 1]

IsIso(s) == \E t \in 0..5 : IsoStr[t + 1] = s

\* datetime.fromisoformat(), where IsIso
FromIsoFormat(s) == CHOOSE t \in 0..5 : IsoStr[t + 1] = s

\* One chunk of JSON text as json.dump writes it: a key of the document and the
\* text of its value, token by token.
Chunk(k, v) == [k |-> k, v |-> v]

\* json text of the entry (a deep value): null, {} or {"turn": t, "heroes": h}
StateToJson(d) ==
    IF d = None THEN <<"null">>
    ELSE IF d.keys = {} THEN <<"{", "}">>
    ELSE <<"{", "turn", IntToJson(d.turn), "heroes", IntToJson(d.heroes), "}">>

\* cache_data of _save_to_file as json text
CacheDataToJson(d, ts) ==
    << Chunk("state", StateToJson(d)),
       Chunk("last_update", <<IF ts = NoTime THEN "null" ELSE IsoFormat(ts)>>) >>

\* json.load: [ok, object, state, last_update]. ok is FALSE for text that is no
\* JSON; object is FALSE for JSON that is no object (a list).
JsonFail == [ok |-> FALSE, object |-> FALSE, state |-> None, last_update |-> "null"]

JsonList == [ok |-> TRUE, object |-> FALSE, state |-> None, last_update |-> "null"]

\* the text of a JSON list
ListJson == <<Chunk("[", <<"]">>)>>

\* the value of "state"
IsJsonState(v) ==
    \/ v = <<"null">>
    \/ v = <<"{", "}">>
    \/ /\ Len(v) = 6
       /\ v[1] = "{" /\ v[2] = "turn" /\ IsJsonInt(v[3])
       /\ v[4] = "heroes" /\ IsJsonInt(v[5]) /\ v[6] = "}"

JsonToState(v) ==
    IF v = <<"null">> THEN None
    ELSE IF v = <<"{", "}">> THEN EmptyDict
    ELSE Dict(JsonToInt(v[3]), JsonToInt(v[5]))

JsonLoad(s) ==
    IF s = ListJson THEN JsonList
    ELSE IF Len(s) = 2 /\ s[1].k = "state" /\ IsJsonState(s[1].v)
            /\ s[2].k = "last_update" /\ Len(s[2].v) = 1
    THEN [ok |-> TRUE, object |-> TRUE, state |-> JsonToState(s[1].v),
          last_update |-> s[2].v[1]]
    ELSE JsonFail

-----------------------------------------------------------------------------
(* Save files and events *)

\* SaveFileHandler.debounce_seconds = 1.0; the watcher's clock is read in half
\* seconds
DebounceTicks == 2

\* what datetime.now() can give in on_modified
Ticks == 0..MaxTick

\* what the clock can read when the readings in `kept` were taken before: the
\* clock does not run backwards
Now(kept) ==
    {now \in Ticks : \A p \in DOMAIN kept : kept[p] = NoTime \/ now >= kept[p]}

\* str.lower() of a suffix
Lower(suffix) ==
    CASE suffix = ".GM3" -> ".gm3"
      [] suffix = ".Gm1" -> ".gm1"
      [] suffix = ".GM1" -> ".gm1"
      [] OTHER -> suffix

SaveSuffixes == {".gm1", ".gm2", ".gm3", ".gm4", ".gm5", ".gm6"}

\* Faulty variant: the suffix is compared as it is written
IsSaveFileExact(path) == path.suffix \in SaveSuffixes

\* SaveFileHandler._is_save_file
IsSaveFile(path) == Lower(path.suffix) \in SaveSuffixes

\* The paths events come for: save files in either letter case, and files that
\* are none (a note, an extension past .gm6, a temporary file, no extension).
EventPaths ==
    { Path("save", ".gm1"), Path("auto", ".GM3"),
      Path("notes", ".txt"), Path("save", ".gm7"), Path("save", ".tmp"),
      Path("gm1", "") }

\* FileModifiedEvent / DirModifiedEvent
Event(is_directory, src_path) ==
    [is_directory |-> is_directory, src_path |-> src_path]

NoEvent == Event(FALSE, NoPath)

Events ==
    {Event(FALSE, p) : p \in EventPaths} \cup {Event(TRUE, Path("save", ".gm1"))}

\* Optional[GameState] = None: what parse_save_file returns when it fails
NoSnapshot == [turn |-> 0]

\* GameState, with its turn
GameStates == {[turn |-> t] : t \in Turns}

\* the fields of Hero that have no default, as dataclasses.asdict names them
HeroFields == {"name", "location", "army", "movement_left", "primary_stats"}

\* the fields of Hero that are None unless given
HeroOptional ==
    {"mana", "experience", "level", "skills", "spells", "artifacts"}

\* Hero: the optional fields that were given
Heroes == SUBSET HeroOptional

\* resources of a GameState: None, an empty dict or one with entries
Resources == {"None", "{}", "{gold}"}

\* GameState(turn, current_player, visible_tiles, heroes, towns, resources),
\* with the heroes it lists
GameStateInstance(turn, heroes, resources) ==
    [turn |-> turn, heroes |-> heroes, resources |-> resources]

NoInstance == GameStateInstance(0, <<>>, "None")

GameStateInstances ==
    { GameStateInstance(t, h, r) :
        t \in Turns,
        h \in UNION {[1..n -> Heroes] : n \in 0..MaxHeroes},
        r \in Resources }

\* Hero.to_dict: the keys of asdict(self) whose value is not None
HeroToDict(hero) == HeroFields \cup hero

\* A snapshot document: its keys, and the keys of each of its hero records
Document(keys, heroes) == [keys |-> keys, heroes |-> heroes]

NoDocument == Document({}, <<>>)

\* GameState.to_dict
GameStateToDict(self) ==
    Document(
        {"turn", "currentPlayer", "visibleTiles", "heroes", "towns"}
            \cup (IF self.resources \in {"None", "{}"} THEN {} ELSE {"resources"}),
        [i \in DOMAIN self.heroes |-> HeroToDict(self.heroes[i])])

\* game_state.to_dict() is called
ToDict ==
    /\ instance # NoInstance
    /\ document = NoDocument
    /\ document' = GameStateToDict(instance)
    /\ instance' = instance

\* "required" of the schema served at /schema/snapshot.json
SchemaRequired == {"turn", "currentPlayer", "visibleTiles", "heroes", "towns"}

\* "required" of the schema's hero records
HeroRequired == {"name", "location", "army", "movementLeft", "primaryStats"}

\* The files the save directory can hold when the program starts: a save, an
\* autosave, a save written in capitals, and a later save slot.
DirFiles ==
    { Path("save", ".gm1"), Path("autosave_1", ".gm1"), Path("OLD", ".GM1"),
      Path("save", ".gm2") }

\* A directory: st_mtime of each file it holds, NoTime for a file it does not
Directories == [DirFiles -> Times \cup {NoTime}]

\* the patterns of process_existing_saves, in the order they are globbed
Patterns == <<"*.gm1", "*.GM1", "autosave_*.gm1">>

\* Whether a file name matches a pattern: letter for letter, or in any letter
\* case where the file system does not tell the cases apart
Fnmatch(path, pattern, caseless) ==
    LET Same(suffix) ==
            \/ path.suffix = suffix
            \/ caseless /\ Lower(path.suffix) = Lower(suffix)
    IN CASE pattern = "*.gm1" -> Same(".gm1")
         [] pattern = "*.GM1" -> Same(".GM1")
         [] pattern = "autosave_*.gm1" ->
                path.stem \in {"autosave_1"} /\ Same(".gm1")

\* self.save_directory.glob(pattern)
Glob(dir, pattern, caseless) ==
    {f \in DirFiles : dir[f] # NoTime /\ Fnmatch(f, pattern, caseless)}

\* save_files once every pattern was globbed: how often each file is in the
\* list
SaveFiles(dir, caseless) ==
    [f \in DirFiles |->
        Cardinality({i \in DOMAIN Patterns : f \in Glob(dir, Patterns[i], caseless)})]

\* what save_files[0] can be once the list is sorted by st_mtime, latest
\* first: glob gives the files in no particular order, and the sort keeps the
\* order of files written at the same time
LatestSave(dir, caseless) ==
    LET save_files == SaveFiles(dir, caseless) IN
    {f \in DirFiles :
        /\ save_files[f] > 0
        /\ \A g \in DirFiles : save_files[g] > 0 => dir[g] <= dir[f]}

\* What process_existing_saves did: the directory it looked at, the file it
\* gave to the parser (NoPath if none), the number of parser invocations, and
\* the GameState parsed
Existing(dir, latest_save, parses, parsed) ==
    [dir |-> dir, latest_save |-> latest_save, parses |-> parses,
     game_state |-> parsed]

\* process_existing_saves was not called
NoExisting == Existing([f \in DirFiles |-> NoTime], NoPath, 0, NoSnapshot)

\* what get_advice returns: a text, or None
Advices == {"advice", "None"}

\* The history of one event: the clock reading taken for it (NoTime if none
\* was), when the parser was last invoked for its path before, the number of
\* parser invocations and of documents written to standard output, the calls
\* made from the callback, and the Store as it was when the event arrived;
\* with it, whether the parser has failed for any event so far, and whether it
\* failed when it was last invoked for the path of this event.
History(now, prev, parses, stdout, calls, before, failed, prevFailed) ==
    [now |-> now, prev |-> prev, parses |-> parses, stdout |-> stdout,
     calls |-> calls, before |-> before, failed |-> failed,
     prevFailed |-> prevFailed]

NoHistory == History(NoTime, NoTime, 0, 0, <<>>, <<>>, FALSE, FALSE)

\* The last invocation of the parser for a path: when, and whether it failed.
Parsed(at, failed) == [at |-> at, failed |-> failed]

NeverParsed == Parsed(NoTime, FALSE)

-----------------------------------------------------------------------------
(* HTTP requests and responses *)

\* request_data.get("turn") of a body that names no turn
NoTurn == 0

\* The bodies of POST /query/snapshot: none (Content-Length 0, read as '{}'),
\* {}, {"turn": r}, {"turn": null}, a JSON list, text that is no JSON, and
\* bytes that are no UTF-8 text.
Bodies ==
    { <<>>, <<"{", "}">>, <<"{", "turn", "null", "}">>, <<"[", "]">>,
      <<"{", "turn">>, <<"0xFF">> }
    \cup { <<"{", "turn", IntToJson(r), "}">> : r \in Turns }

\* bytes.decode() gives the text of the body, or raises UnicodeDecodeError
Decodes(body) == \A i \in DOMAIN body : body[i] # "0xFF"

\* json.loads(body): [ok, object, turn]
JsonLoads(body) ==
    LET text == IF body = <<>> THEN <<"{", "}">> ELSE body IN
    IF text = <<"{", "}">> \/ text = <<"{", "turn", "null", "}">>
    THEN [ok |-> TRUE, object |-> TRUE, turn |-> NoTurn]
    ELSE IF text = <<"[", "]">>
    THEN [ok |-> TRUE, object |-> FALSE, turn |-> NoTurn]
    ELSE IF Len(text) = 4 /\ text[1] = "{" /\ text[2] = "turn"
            /\ IsJsonInt(text[3]) /\ text[4] = "}"
    THEN [ok |-> TRUE, object |-> TRUE, turn |-> JsonToInt(text[3])]
    ELSE [ok |-> FALSE, object |-> FALSE, turn |-> NoTurn]

\* The requests: the command and the path of the request line and, for a
\* POST of /query/snapshot, the body once it has been looked at.
Commands == {"GET", "POST", "PUT", "DELETE"}

RequestPaths ==
    {"/manifest", "/schema/snapshot.json", "/query/snapshot", "/other"}

Request(command, path, body) ==
    [command |-> command, path |-> path, body |-> body]

Unread == <<"unread">>

NoRequestLine == Request("", "", Unread)

\* no query is being handled
NoRequest == [ok |-> FALSE, object |-> FALSE, turn |-> NoTurn]

\* A response: the HTTP status and the JSON payload, with the keys it has.
Response(status, keys, error, data, at) ==
    [status |-> status, keys |-> keys, error |-> error, data |-> data,
     cached_at |-> at]

NoResponse == Response(0, {}, "", None, "null")

\* the handler raised: the connection is closed with no response
NoReply == Response(-1, {}, "", None, "null")

\* send_error(code, message)
SendError(code) == Response(code, {}, "", None, "null")

\* the static documents of GET /manifest and GET /schema/snapshot.json
Manifest ==
    Response(200, {"schema_version", "name", "description", "icon",
                   "context_sources"}, "", None, "null")

Schema ==
    Response(200, {"$schema", "title", "description", "type", "required",
                   "properties"}, "", None, "null")

\* the payloads of QueryHandler.handle_query
NoGameState ==
    Response(200, {"error", "message"}, "No game state available", None, "null")

TurnNotAvailable ==
    Response(200, {"error", "message"}, "Turn not available", None, "null")

Success(data, at) ==
    Response(200, {"success", "data", "metadata"}, "", data, at)

\* what the Store held when a query read it: the entry, and the timestamp
\* that was set with it
NotSeen == [read |-> FALSE, entry |-> FALSE, value |-> None, at |-> NoTime]

Seen(d, at) == [read |-> TRUE, entry |-> d # None, value |-> d, at |-> at]

-----------------------------------------------------------------------------
(* Construction *)

\* a Store with no entry and no timestamp
EmptyEntry == [raised |-> FALSE, state |-> None, last_update |-> NoTime]

\* Faulty variant: an unparsable last_update leaves the state that was already loaded
LoadFromFileKeepsState(f) ==
    LET j == JsonLoad(f.data) IN
    IF f.kind = "unreadable" \/ ~j.ok \/ ~j.object THEN EmptyEntry
    ELSE IF j.last_update = "null" \/ ~IsIso(j.last_update)
    THEN [raised |-> FALSE, state |-> j.state, last_update |-> NoTime]
    ELSE [raised |-> FALSE, state |-> j.state,
          last_update |-> FromIsoFormat(j.last_update)]

\* _load_from_file: any exception resets the entry and the timestamp.
LoadFromFile(f) ==
    LET j == JsonLoad(f.data) IN
    IF f.kind = "unreadable" \/ ~j.ok \/ ~j.object THEN EmptyEntry
    ELSE IF j.last_update = "null"
    THEN [raised |-> FALSE, state |-> j.state, last_update |-> NoTime]
    ELSE IF ~IsIso(j.last_update) THEN EmptyEntry
    ELSE [raised |-> FALSE, state |-> j.state,
          last_update |-> FromIsoFormat(j.last_update)]

\* __init__: the entry of a Store constructed over `path` with the files `files`
\* (state is a deep value).
Construct(path, files) ==
    IF path # NoPath /\ Exists(files[path]) THEN LoadFromFile(files[path])
    ELSE EmptyEntry

\* the loaded entry placed in memory: its nested list is a new object, at
\* reference 1
Loaded(e) ==
    IF e.state = None \/ e.state.keys = {} THEN e.state
    ELSE [e.state EXCEPT !.heroes = 1]

LoadedHeap(e) ==
    [r \in Refs |-> IF r = 1 /\ e.state # None /\ e.state.keys # {}
                    THEN e.state.heroes ELSE 0]

\* what a cache file holds when the process starts
InitFiles ==
    { Absent, Unreadable,
      File(ListJson),
      File(<<Chunk("state", <<"{", "turn", "1">>)>>),
      File(CacheDataToJson(Dict(1, 0), 0)),
      File(<<Chunk("state", StateToJson(Dict(1, 0))),
             Chunk("last_update", <<"yesterday">>)>>) }

NoFiles == [p \in AllPaths |-> Absent]

Constructed ==
    /\ cache_file \in ConfiguredPaths
    /\ \E f \in InitFiles :
          fs = IF cache_file = NoPath THEN NoFiles
               ELSE [NoFiles EXCEPT ![cache_file] = f]
    /\ LET e == Construct(cache_file, fs) IN
          /\ store = IF e.raised THEN "ctor_raised" ELSE "ok"
          /\ _state = Loaded(e)
          /\ last_update = e.last_update
          /\ heap = LoadedHeap(e)
    /\ lock = Free
    /\ pc = [t \in Threads |-> "idle"]
    /\ local = [t \in Threads |-> None]
    /\ hLast = "construct"
    /\ hValue = None
    /\ request = NoRequestLine
    /\ request_data = NoRequest
    /\ cached_at = "null"
    /\ response = NoResponse
    /\ hSeen = NotSeen
    /\ wpc = "wait"
    /\ event = NoEvent
    /\ last_modified = [p \in EventPaths |-> NoTime]
    /\ game_state = NoSnapshot
    /\ advice = "None"
    /\ hEv = NoHistory
    /\ hAccepted = [p \in EventPaths |-> NeverParsed]
    /\ life = "start"
    /\ observer = "new"
    /\ server = "none"
    /\ existing = NoExisting
    /\ pending = "None"
    /\ hStops = <<>>
    /\ document = NoDocument

\* The program as H3AIAdvisor constructs it
Init == Constructed /\ instance = NoInstance

\* A GameState instance, before its to_dict is called
InitDoc == Constructed /\ instance \in GameStateInstances

-----------------------------------------------------------------------------
(* References *)

RefsOf(d) == IF d = None \/ d.keys = {} THEN {} ELSE {d.heroes}

\* the dicts alive: the entry's and the threads', in a fixed order
Holders(st, loc) == <<st, loc["watcher"], loc["query"], loc["client"], loc["owner"]>>

LiveIn(hs) == UNION {RefsOf(hs[i]) : i \in 1..Len(hs)}

\* Lists are named in the order in which the dicts alive refer to them, so
\* that a state does not depend on the names.
First(r, hs) ==
    CHOOSE i \in 1..Len(hs) :
        r \in RefsOf(hs[i]) /\ \A j \in 1..(i - 1) : r \notin RefsOf(hs[j])

Rank(r, hs) == Cardinality({q \in LiveIn(hs) : First(q, hs) <= First(r, hs)})

Renamed(d, rank) ==
    IF RefsOf(d) = {} THEN d ELSE [d EXCEPT !.heroes = rank[d.heroes]]

\* The entry `st`, the threads' dicts `loc` and the lists `h` become the memory
\* of the next state; a list no dict refers to any more is gone, a list just
\* built holds the heroes as parsed (list 0).
SetMemory(st, loc, h) ==
    LET hs == Holders(st, loc)
        live == LiveIn(hs)
        rank == [r \in live |-> Rank(r, hs)]
        at(r) == IF r = NewList THEN 0 ELSE h[r]
    IN  /\ _state' = Renamed(st, rank)
        /\ local' = [t \in Threads |-> Renamed(loc[t], rank)]
        /\ heap' = [n \in Refs |->
                       IF \E r \in live : rank[r] = n
                       THEN at(CHOOSE r \in live : rank[r] = n)
                       ELSE 0]

-----------------------------------------------------------------------------
(* The lock *)

\* Faulty variant: the block is entered without waiting for the lock
AcquireNoWait(t) == lock' = t

\* threading.Lock.acquire, entering a `with self._lock` block
Acquire(t) == lock = Free /\ lock' = t

\* leaving the block
Release(t) == lock = t /\ lock' = Free

-----------------------------------------------------------------------------
(* Callers *)

Idle(t) == store = "ok" /\ pc[t] = "idle"

Goto(t, l) == pc' = [pc EXCEPT ![t] = l]

\* H3AIAdvisor.start.on_game_state_update -> MCPServer.update_game_state ->
\* GameStateCache.update, on the watcher thread
WatcherCallback ==
    /\ Idle("watcher")
    /\ Goto("watcher", "u_acquire")
    /\ UNCHANGED <<cache_file, store, _state, last_update, lock, heap, fs,
                   local, hLast, hValue>>

\* MCPRequestHandler.handle_query -> QueryHandler.handle_query, on the HTTP
\* thread, for a body that json.loads accepts: the handler starts with
\* cache.get_latest(). What the body holds is looked at in QueryCheck.
QueryStart ==
    /\ Idle("query")
    /\ Goto("query", "g_acquire")
    /\ request' = Request("POST", "/query/snapshot", Unread)
    /\ request_data' = NoRequest
    /\ response' = NoResponse
    /\ hSeen' = NotSeen
    /\ UNCHANGED <<cache_file, store, _state, last_update, lock, heap, fs,
                   local, hLast, hValue, cached_at>>

\* Any other caller of the public methods calls update(d), ...
CallUpdate(t) ==
    /\ Idle(t)
    /\ SetMemory(_state, [local EXCEPT ![t] = None], heap)
    /\ Goto(t, "u_acquire")
    /\ UNCHANGED <<cache_file, store, last_update, lock, fs, hLast, hValue>>

\* ... get_latest() ...
CallGetLatest(t) ==
    /\ Idle(t)
    /\ SetMemory(_state, [local EXCEPT ![t] = None], heap)
    /\ Goto(t, "g_acquire")
    /\ UNCHANGED <<cache_file, store, last_update, lock, fs, hLast, hValue>>

\* ... or clear()
CallClear(t) ==
    /\ Idle(t)
    /\ SetMemory(_state, [local EXCEPT ![t] = None], heap)
    /\ Goto(t, "c_acquire")
    /\ UNCHANGED <<cache_file, store, last_update, lock, fs, hLast, hValue>>

\* A caller that keeps the dict it passed to update(), or the one get_latest()
\* returned, changes it after the call: a top-level key ...
OwnerMutateTop ==
    /\ Idle("owner")
    /\ Truthy(local["owner"])
    /\ \E turn \in Turns \ {local["owner"].turn} :
          local' = [local EXCEPT !["owner"].turn = turn]
    /\ UNCHANGED <<cache_file, store, _state, last_update, lock, heap, fs,
                   pc, hLast, hValue>>

\* ... or the nested list, in place
OwnerMutateNested ==
    /\ Idle("owner")
    /\ Truthy(local["owner"])
    /\ \E heroes \in Lists \ {heap[local["owner"].heroes]} :
          heap' = [heap EXCEPT ![local["owner"].heroes] = heroes]
    /\ UNCHANGED <<cache_file, store, _state, last_update, lock, fs, pc,
                   local, hLast, hValue>>

-----------------------------------------------------------------------------
(* GameStateCache.update *)

Updaters == {"watcher", "client", "owner"}

\* The dicts update() may be given by thread t: GameState.to_dict() of a parsed
\* save on the watcher thread (of the GameState its handler holds, of any where
\* the handler is not followed), a new dict with every required key and a new
\* nested list; from another caller also a dict with no keys.
Arguments(t) ==
    IF t = "watcher" /\ game_state # NoSnapshot
    THEN {Dict(game_state.turn, NewList)}
    ELSE {Dict(turn, NewList) : turn \in Turns}
         \cup (IF t = "watcher" THEN {} ELSE {EmptyDict})

\* with self._lock: the block is entered with game_state, which no other thread
\* has seen so far
UpdateAcquire(t) ==
    /\ pc[t] = "u_acquire"
    /\ Acquire(t)
    /\ \E d \in Arguments(t) : SetMemory(_state, [local EXCEPT ![t] = d], heap)
    /\ Goto(t, "u_state")
    /\ UNCHANGED <<cache_file, store, last_update, fs, hLast, hValue>>

\* self._state = game_state.copy()
UpdateSetState(t) ==
    /\ pc[t] = "u_state"
    /\ SetMemory(Copy(local[t]), local, heap)
    /\ hLast' = "update"
    /\ hValue' = Deep(local[t])
    /\ Goto(t, "u_time")
    /\ UNCHANGED <<cache_file, store, last_update, lock, fs>>

\* self.last_update = datetime.now(), whatever the clock says; if self.cache_file: self._save_to_file()
UpdateSetTime(t) ==
    /\ pc[t] = "u_time"
    /\ \E ts \in Times : last_update' = ts
    /\ Goto(t, IF cache_file # NoPath THEN "s_open" ELSE "u_release")
    /\ UNCHANGED <<cache_file, store, _state, lock, heap, fs, local, hLast,
                   hValue>>

\* temp_file = self.cache_file.with_suffix('.tmp')
TempFile == WithSuffix(cache_file, ".tmp")

\* what json.dump writes: cache_data as it is now
CacheData == CacheDataToJson(Deep(_state), last_update)

\* open(temp_file, 'w'): the file is created or truncated
SaveOpen(t) ==
    /\ pc[t] = "s_open"
    /\ fs' = [fs EXCEPT ![TempFile] = File(<<>>)]
    /\ Goto(t, "s_dump")
    /\ UNCHANGED <<cache_file, store, _state, last_update, lock, heap,
                   local, hLast, hValue>>

\* json.dump(cache_data, f, indent=2) writes the next chunk; after the last one
\* the file is closed
SaveDump(t) ==
    /\ pc[t] = "s_dump"
    /\ LET written == fs[TempFile].data IN
          /\ fs' = [fs EXCEPT ![TempFile] =
                       File(Append(written, CacheData[Len(written) + 1]))]
          /\ Goto(t, IF Len(written) + 1 = Len(CacheData) THEN "s_replace"
                     ELSE "s_dump")
    /\ UNCHANGED <<cache_file, store, _state, last_update, lock, heap,
                   local, hLast, hValue>>

\* Faulty variant: the temporary file is written but never moved into place
SaveWithoutReplace(t) ==
    /\ pc[t] = "s_replace"
    /\ hLast' = "saved"
    /\ Goto(t, "u_release")
    /\ UNCHANGED <<cache_file, store, _state, last_update, lock, heap, fs,
                   local, hValue>>

\* temp_file.replace(self.cache_file): an atomic rename over the target
SaveReplace(t) ==
    /\ pc[t] = "s_replace"
    /\ fs' = IF TempFile = cache_file THEN fs
             ELSE [fs EXCEPT ![cache_file] = fs[TempFile], ![TempFile] = Absent]
    /\ hLast' = "saved"
    /\ Goto(t, "u_release")
    /\ UNCHANGED <<cache_file, store, _state, last_update, lock, heap,
                   local, hValue>>

\* open, json.dump or replace raises: except Exception logs it
SaveFail(t) ==
    /\ pc[t] \in {"s_open", "s_dump", "s_replace"}
    /\ hLast' = "unsaved"
    /\ Goto(t, "u_release")
    /\ UNCHANGED <<cache_file, store, _state, last_update, lock, heap, fs,
                   local, hValue>>

\* the block ends and update() returns; the dict passed is dropped, unless the
\* caller keeps it
UpdateReturn(t) ==
    /\ pc[t] = "u_release"
    /\ Release(t)
    /\ SetMemory(_state, IF t = "owner" THEN local ELSE [local EXCEPT ![t] = None],
                 heap)
    /\ Goto(t, "idle")
    /\ UNCHANGED <<cache_file, store, last_update, fs, hLast, hValue>>

-----------------------------------------------------------------------------
(* GameStateCache.get_latest *)

Readers == {"query", "client", "owner"}

\* with self._lock:
GetAcquire(t) ==
    /\ pc[t] = "g_acquire"
    /\ Acquire(t)
    /\ Goto(t, "g_copy")
    /\ UNCHANGED <<cache_file, store, _state, last_update, heap, fs, local,
                   hLast, hValue>>

\* self._state.copy() if self._state else None
GetLatestValue(d) == IF Truthy(d) THEN Copy(d) ELSE None

\* the return value is computed inside the block
GetCopy(t) ==
    /\ pc[t] = "g_copy"
    /\ SetMemory(_state, [local EXCEPT ![t] = GetLatestValue(_state)], heap)
    /\ Goto(t, "g_release")
    /\ UNCHANGED <<cache_file, store, last_update, lock, fs, hLast, hValue>>

\* the block ends and get_latest() returns: to QueryHandler.handle_query on the
\* HTTP thread, to the caller otherwise (who drops the value unless it keeps it)
GetReturn(t) ==
    /\ pc[t] = "g_release"
    /\ Release(t)
    /\ SetMemory(_state, IF t \in {"query", "owner"} THEN local
                         ELSE [local EXCEPT ![t] = None], heap)
    /\ Goto(t, IF t = "query" THEN "q_check" ELSE "idle")
    /\ UNCHANGED <<cache_file, store, last_update, fs, hLast, hValue>>

-----------------------------------------------------------------------------
(* GameStateCache.clear *)

\* with self._lock:
ClearAcquire(t) ==
    /\ pc[t] = "c_acquire"
    /\ Acquire(t)
    /\ Goto(t, "c_state")
    /\ UNCHANGED <<cache_file, store, _state, last_update, heap, fs, local,
                   hLast, hValue>>

\* self._state = None
ClearState(t) ==
    /\ pc[t] = "c_state"
    /\ SetMemory(None, local, heap)
    /\ hLast' = "clearing"
    /\ hValue' = None
    /\ Goto(t, "c_time")
    /\ UNCHANGED <<cache_file, store, last_update, lock, fs>>

\* Faulty variant: clear() leaves the timestamp as it is
ClearTimeKept(t) ==
    /\ pc[t] = "c_time"
    /\ last_update' = last_update
    /\ Goto(t, "c_unlink")
    /\ UNCHANGED <<cache_file, store, _state, lock, heap, fs, local, hLast,
                   hValue>>

\* self.last_update = None
ClearTime(t) ==
    /\ pc[t] = "c_time"
    /\ last_update' = NoTime
    /\ Goto(t, "c_unlink")
    /\ UNCHANGED <<cache_file, store, _state, lock, heap, fs, local, hLast,
                   hValue>>

\* Faulty variant: clear() leaves the cache file behind
ClearWithoutUnlink(t) ==
    /\ pc[t] = "c_unlink"
    /\ hLast' = "cleared"
    /\ Goto(t, "c_release")
    /\ UNCHANGED <<cache_file, store, _state, last_update, lock, heap, fs,
                   local, hValue>>

\* if self.cache_file and self.cache_file.exists(): self.cache_file.unlink()
ClearUnlink(t) ==
    /\ pc[t] = "c_unlink"
    /\ fs' = IF cache_file # NoPath /\ Exists(fs[cache_file])
             THEN [fs EXCEPT ![cache_file] = Absent] ELSE fs
    /\ hLast' = "cleared"
    /\ Goto(t, "c_release")
    /\ UNCHANGED <<cache_file, store, _state, last_update, lock, heap,
                   local, hValue>>

\* unlink raises (the file cannot be removed): the exception leaves the block
\* and clear()
ClearUnlinkFail(t) ==
    /\ pc[t] = "c_unlink"
    /\ cache_file # NoPath /\ Exists(fs[cache_file])
    /\ hLast' = "clear_raised"
    /\ Goto(t, "c_release")
    /\ UNCHANGED <<cache_file, store, _state, last_update, lock, heap, fs,
                   local, hValue>>

\* the block ends, with or without an exception
ClearReturn(t) ==
    /\ pc[t] = "c_release"
    /\ Release(t)
    /\ Goto(t, "idle")
    /\ UNCHANGED <<cache_file, store, _state, last_update, heap, fs, local,
                   hLast, hValue>>

-----------------------------------------------------------------------------
(* QueryHandler.handle_query, after cache.get_latest() *)

\* Faulty variant: the turn is compared before the snapshot is tested
HandleQueryTurnFirst(latest, data) ==
    IF data.object /\ data.turn # NoTurn THEN "mismatch"
    ELSE IF latest = None THEN "no_state"
    ELSE IF ~data.object THEN "raise"
    ELSE "ok"

\* Faulty variant: the requested turn is not compared
HandleQueryAnyTurn(latest, data) ==
    IF latest = None THEN "no_state"
    ELSE IF ~data.object THEN "raise"
    ELSE "ok"

\* if latest is None: the "No game state available" payload; if the body
\* names a turn other than the snapshot's: the "Turn not available" payload;
\* otherwise the handler goes on to build the success payload. A body that is
\* no JSON object has no get(): the handler raises.
HandleQuery(latest, data) ==
    IF latest = None THEN "no_state"
    ELSE IF ~data.object THEN "raise"
    ELSE IF data.turn # NoTurn /\ data.turn # latest.turn THEN "mismatch"
    ELSE "ok"

\* the first part of handle_query, on the body of the request; a payload
\* returned here is sent with status 200
QueryCheck ==
    /\ pc["query"] = "q_check"
    /\ \E body \in Bodies :
          LET data == JsonLoads(body)
              outcome == HandleQuery(local["query"], data)
          IN  /\ Decodes(body) /\ data.ok
              /\ request' = [request EXCEPT !.body = body]
              /\ request_data' = data
              /\ response' = CASE outcome = "no_state" -> NoGameState
                               [] outcome = "raise" -> NoReply
                               [] outcome = "mismatch" -> TurnNotAvailable
                               [] OTHER -> NoResponse
              /\ Goto("query", IF outcome = "ok" THEN "q_cached_test" ELSE "idle")
              /\ IF outcome = "ok" THEN UNCHANGED <<_state, local, heap>>
                 ELSE SetMemory(_state, [local EXCEPT !["query"] = None], heap)
    /\ UNCHANGED <<cache_file, store, last_update, lock, fs, hLast, hValue,
                   cached_at, hSeen>>

\* "cached_at": ... if self.cache.last_update else None: the attribute is read
\* from the handler, with no lock held
QueryCachedTest ==
    /\ pc["query"] = "q_cached_test"
    /\ cached_at' = "null"
    /\ Goto("query", IF last_update # NoTime THEN "q_cached_iso" ELSE "q_respond")
    /\ response' = NoResponse
    /\ UNCHANGED <<cache_file, store, _state, last_update, lock, heap, fs,
                   local, hLast, hValue, request, request_data, hSeen>>

\* self.cache.last_update.isoformat(): read again, with no lock held; None has
\* no isoformat() and the handler raises
QueryCachedIso ==
    /\ pc["query"] = "q_cached_iso"
    /\ IF last_update # NoTime
       THEN /\ cached_at' = IsoFormat(last_update)
            /\ response' = NoResponse
            /\ Goto("query", "q_respond")
            /\ UNCHANGED <<_state, local, heap>>
       ELSE /\ cached_at' = "null"
            /\ response' = NoReply
            /\ SetMemory(_state, [local EXCEPT !["query"] = None], heap)
            /\ Goto("query", "idle")
    /\ UNCHANGED <<cache_file, store, last_update, lock, fs, hLast, hValue,
                   request, request_data, hSeen>>

\* Faulty variant: the handler empties the Store once it has served the entry
QueryRespondClears ==
    /\ pc["query"] = "q_respond"
    /\ response' = Success(Deep(local["query"]), cached_at)
    /\ cached_at' = "null"
    /\ SetMemory(None, [local EXCEPT !["query"] = None], heap)
    /\ last_update' = NoTime
    /\ Goto("query", "idle")
    /\ UNCHANGED <<cache_file, store, lock, fs, hLast, hValue, request,
                   request_data, hSeen>>

\* the payload is returned and json.dumps writes it with status 200, "data"
\* being the handler's dict as it is now; the dict is dropped
QueryRespond ==
    /\ pc["query"] = "q_respond"
    /\ response' = Success(Deep(local["query"]), cached_at)
    /\ cached_at' = "null"
    /\ SetMemory(_state, [local EXCEPT !["query"] = None], heap)
    /\ Goto("query", "idle")
    /\ UNCHANGED <<cache_file, store, last_update, lock, fs, hLast, hValue,
                   request, request_data, hSeen>>

\* Faulty variant: the static documents are served only once there is a
\* snapshot
RouteWhenCached(command, path) ==
    IF command = "GET"
    THEN IF _state = None THEN SendError(404)
         ELSE IF path = "/manifest" THEN Manifest
         ELSE IF path = "/schema/snapshot.json" THEN Schema
         ELSE SendError(404)
    ELSE IF command = "POST" THEN SendError(404)
    ELSE SendError(501)

\* BaseHTTPRequestHandler.handle_one_request, MCPRequestHandler.do_GET and
\* do_POST, for a request other than POST /query/snapshot: a command with no
\* do_ method is answered 501 by the base class, GET has two paths, POST one
Route(command, path) ==
    IF command = "GET"
    THEN IF path = "/manifest" THEN Manifest
         ELSE IF path = "/schema/snapshot.json" THEN Schema
         ELSE SendError(404)
    ELSE IF command = "POST" THEN SendError(404)
    ELSE SendError(501)

\* a request on another route than the query: it does not reach the Store
HttpOther ==
    /\ Idle("query")
    /\ \E command \in Commands, path \in RequestPaths :
          /\ ~(command = "POST" /\ path = "/query/snapshot")
          /\ request' = Request(command, path, Unread)
          /\ response' = Route(command, path)
    /\ request_data' = NoRequest
    /\ hSeen' = NotSeen
    /\ UNCHANGED <<cache_file, store, _state, last_update, lock, heap, fs, pc,
                   local, hLast, hValue, cached_at>>

\* MCPRequestHandler.handle_query on a body that json.loads does not accept:
\* JSONDecodeError is answered with send_error(400); decode() is outside the
\* try, so what it raises leaves the handler and no response is sent
QueryBadBody ==
    /\ Idle("query")
    /\ \E body \in Bodies :
          /\ ~Decodes(body) \/ ~JsonLoads(body).ok
          /\ request' = Request("POST", "/query/snapshot", body)
          /\ response' = IF Decodes(body) THEN SendError(400) ELSE NoReply
    /\ request_data' = NoRequest
    /\ hSeen' = NotSeen
    /\ UNCHANGED <<cache_file, store, _state, last_update, lock, heap, fs, pc,
                   local, hLast, hValue, cached_at>>

-----------------------------------------------------------------------------
(* SaveFileHandler.on_modified, on the watcher thread *)

\* the observer dispatches the next event to on_modified
EventArrives ==
    /\ wpc = "wait"
    /\ Idle("watcher")
    /\ \E e \in Events :
          /\ event' = e
          /\ hEv' = History(NoTime, hAccepted[e.src_path].at, 0, 0, <<>>,
                            <<Deep(_state), last_update, fs>>, hEv.failed,
                            hAccepted[e.src_path].failed)
    /\ wpc' = "m_filter"
    /\ UNCHANGED <<last_modified, game_state, advice, hAccepted>>
    /\ UNCHANGED storeVars

\* if event.is_directory: return; if not self._is_save_file(path): return
OnModifiedFilter ==
    /\ wpc = "m_filter"
    /\ wpc' = IF event.is_directory \/ ~IsSaveFile(event.src_path)
              THEN "m_done" ELSE "m_debounce"
    /\ UNCHANGED <<event, last_modified, game_state, advice, hEv, hAccepted>>
    /\ UNCHANGED storeVars

\* Faulty variant: one time of last modification is kept for all paths
OnModifiedDebounceAnyPath ==
    /\ wpc = "m_debounce"
    /\ \E now \in Now(last_modified) :
          /\ hEv' = [hEv EXCEPT !.now = now]
          /\ IF \E p \in EventPaths :
                    last_modified[p] # NoTime
                    /\ now - last_modified[p] < DebounceTicks
             THEN wpc' = "m_done" /\ last_modified' = last_modified
             ELSE /\ wpc' = "m_parse"
                  /\ last_modified' = [last_modified EXCEPT ![event.src_path] = now]
    /\ UNCHANGED <<event, game_state, advice, hAccepted>>
    /\ UNCHANGED storeVars

\* Faulty variant: an event exactly the window after the kept time is ignored
WithinInclusive(now, last_mod) ==
    last_mod # NoTime /\ now - last_mod <= DebounceTicks

\* if last_mod and (now - last_mod).total_seconds() < self.debounce_seconds
Within(now, last_mod) ==
    last_mod # NoTime /\ now - last_mod < DebounceTicks

\* now = datetime.now(); an event less than debounce_seconds after the time
\* kept for its path is ignored, otherwise the time is kept
OnModifiedDebounce ==
    /\ wpc = "m_debounce"
    /\ \E now \in Now(last_modified) :
          LET last_mod == last_modified[event.src_path] IN
          /\ hEv' = [hEv EXCEPT !.now = now]
          /\ IF Within(now, last_mod)
             THEN wpc' = "m_done" /\ last_modified' = last_modified
             ELSE /\ wpc' = "m_parse"
                  /\ last_modified' = [last_modified EXCEPT ![event.src_path] = now]
    /\ UNCHANGED <<event, game_state, advice, hAccepted>>
    /\ UNCHANGED storeVars

\* Faulty variant: what is raised while the file is read or decoded is not
\* caught, and ends the thread that dispatches the events
OnModifiedParseRaises ==
    /\ wpc = "m_parse"
    /\ \E result \in GameStates \cup {NoSnapshot} :
          /\ game_state' = result
          /\ wpc' = IF result # NoSnapshot THEN "m_result" ELSE "dead"
          /\ hEv' = [hEv EXCEPT !.parses = @ + 1,
                                !.failed = @ \/ result = NoSnapshot]
          /\ hAccepted' = [hAccepted EXCEPT ![event.src_path] =
                              Parsed(hEv.now, result = NoSnapshot)]
    /\ UNCHANGED <<event, last_modified, advice>>
    /\ UNCHANGED storeVars

\* game_state = self.parser.parse_save_file(path): a GameState, or None when
\* reading or decoding raised, which parse_save_file catches and logs
OnModifiedParse ==
    /\ wpc = "m_parse"
    /\ \E result \in GameStates \cup {NoSnapshot} :
          /\ game_state' = result
          /\ wpc' = "m_result"
          /\ hEv' = [hEv EXCEPT !.parses = @ + 1,
                                !.failed = @ \/ result = NoSnapshot]
          /\ hAccepted' = [hAccepted EXCEPT ![event.src_path] =
                              Parsed(hEv.now, result = NoSnapshot)]
    /\ UNCHANGED <<event, last_modified, advice>>
    /\ UNCHANGED storeVars

\* Faulty variant: what the parser returned is passed on untested
OnModifiedResultAny ==
    /\ wpc = "m_result"
    /\ wpc' = "m_print"
    /\ UNCHANGED <<event, last_modified, game_state, advice, hEv, hAccepted>>
    /\ UNCHANGED storeVars

\* if game_state: ... else: logger.error(...)
OnModifiedResult ==
    /\ wpc = "m_result"
    /\ wpc' = IF game_state # NoSnapshot THEN "m_print" ELSE "m_done"
    /\ UNCHANGED <<event, last_modified, game_state, advice, hEv, hAccepted>>
    /\ UNCHANGED storeVars

\* print(json.dumps(game_state.to_dict(), indent=2))
OnModifiedPrint ==
    /\ wpc = "m_print"
    /\ hEv' = [hEv EXCEPT !.stdout = @ + 1]
    /\ wpc' = "m_callback"
    /\ UNCHANGED <<event, last_modified, game_state, advice, hAccepted>>
    /\ UNCHANGED storeVars

\* self.callback(game_state): on_game_state_update calls
\* self.mcp_server.update_game_state(game_state.to_dict())
OnModifiedCallback ==
    /\ wpc = "m_callback"
    /\ WatcherCallback
    /\ hEv' = [hEv EXCEPT !.calls = Append(@, "update")]
    /\ wpc' = "cb_update"
    /\ UNCHANGED <<event, last_modified, game_state, advice, hAccepted>>

\* Faulty variant: the advice is requested without waiting for the update
CallbackAdviceEarly ==
    /\ wpc = "cb_update"
    /\ advice' \in Advices
    /\ hEv' = [hEv EXCEPT !.calls = Append(@, "get_advice")]
    /\ wpc' = "cb_display"
    /\ UNCHANGED <<event, last_modified, game_state, hAccepted>>
    /\ UNCHANGED storeVars

\* update has returned: advice = self.mcp_connector.get_advice(game_state)
CallbackAdvice ==
    /\ wpc = "cb_update"
    /\ pc["watcher"] = "idle"
    /\ advice' \in Advices
    /\ hEv' = [hEv EXCEPT !.calls = Append(@, "get_advice")]
    /\ wpc' = "cb_display"
    /\ UNCHANGED <<event, last_modified, game_state, hAccepted>>
    /\ UNCHANGED storeVars

\* if advice: display_advice(game_state, advice) else: display_status(...)
CallbackDisplay ==
    /\ wpc = "cb_display"
    /\ hEv' = [hEv EXCEPT !.calls =
                  Append(@, IF advice # "None" THEN "display_advice"
                            ELSE "display_status")]
    /\ wpc' = "m_done"
    /\ UNCHANGED <<event, last_modified, game_state, advice, hAccepted>>
    /\ UNCHANGED storeVars

\* on_modified returns to the observer's loop
OnModifiedReturn ==
    /\ wpc = "m_done"
    /\ wpc' = "wait"
    /\ event' = NoEvent
    /\ game_state' = NoSnapshot
    /\ advice' = "None"
    /\ hEv' = [NoHistory EXCEPT !.failed = hEv.failed]
    /\ UNCHANGED <<last_modified, hAccepted>>
    /\ UNCHANGED storeVars

OnModified ==
    \/ EventArrives \/ OnModifiedFilter \/ OnModifiedDebounce \/ OnModifiedParse
    \/ OnModifiedResult \/ OnModifiedPrint \/ OnModifiedCallback \/ CallbackAdvice
    \/ CallbackDisplay \/ OnModifiedReturn

-----------------------------------------------------------------------------
(* H3AIAdvisor.start and stop, on the main thread *)

\* a stop call that was made, and whether it raised
Stop(call, raised) == [call |-> call, raised |-> raised]

\* self.mcp_server.start(blocking=False): HTTPServer binds the port and
\* serve_forever runs on a daemon thread, or HTTPServer raises (the port is
\* taken), which start logs and raises again once its finally has run
StartServer ==
    /\ life = "start"
    /\ \/ /\ server' = "serving"
          /\ life' = "existing"
          /\ pending' = pending
       \/ /\ server' = server
          /\ life' = "stop_watcher"
          /\ pending' = "Error"
    /\ UNCHANGED <<observer, existing, hStops>>

\* Faulty variant: every entry of save_files for the latest file is parsed
ExistingParseAll(dir, caseless, latest_save, parsed) ==
    LET save_files == SaveFiles(dir, caseless) IN
    Existing(dir, latest_save, save_files[latest_save], parsed)

\* game_state = self.parser.parse_save_file(latest_save): one invocation, of
\* save_files[0]
ExistingParse(dir, caseless, latest_save, parsed) ==
    Existing(dir, latest_save, 1, parsed)

\* self.save_watcher.process_existing_saves(): the latest of the files found is
\* parsed and, if that gives a GameState, printed; handler.callback is not
\* called (it is set only by SaveWatcher.start) and handler.last_modified is
\* not used
ProcessExistingSaves ==
    /\ life = "existing"
    /\ \E dir \in Directories, caseless \in BOOLEAN :
          IF LatestSave(dir, caseless) = {}
          THEN existing' = Existing(dir, NoPath, 0, NoSnapshot)
          ELSE \E latest_save \in LatestSave(dir, caseless),
                  parsed \in GameStates \cup {NoSnapshot} :
                  existing' = ExistingParse(dir, caseless, latest_save, parsed)
    /\ life' = "existing_done"
    /\ UNCHANGED <<observer, server, pending, hStops>>

\* process_existing_saves returns, and its locals are gone: which file it
\* gave to the parser is kept as history
ExistingReturn ==
    /\ life = "existing_done"
    /\ existing' = [NoExisting EXCEPT !.latest_save = existing.latest_save,
                                     !.parses = existing.parses]
    /\ life' = "watch_start"
    /\ UNCHANGED <<observer, server, pending, hStops>>

\* display_status, then self.save_watcher.start(callback): the callback is set
\* and the observer scheduled and started, after which the main thread waits
\* in observer.join(); or observer.start() raises
WatcherStart ==
    /\ life = "watch_start"
    /\ \/ /\ observer' = "started"
          /\ life' = "join"
          /\ pending' = pending
       \/ /\ observer' = observer
          /\ life' = "stop_watcher"
          /\ pending' = "Error"
    /\ UNCHANGED <<server, existing, hStops>>

\* KeyboardInterrupt before the watch loop: except KeyboardInterrupt in
\* H3AIAdvisor.start, then its finally
InterruptStart ==
    /\ life \in {"existing", "existing_done", "watch_start"}
    /\ life' = "stop_watcher"
    /\ existing' = NoExisting
    /\ UNCHANGED <<observer, server, pending, hStops>>

\* KeyboardInterrupt in observer.join(): except KeyboardInterrupt in
\* SaveWatcher.start
InterruptJoin ==
    /\ life = "join"
    /\ life' = "own_stop"
    /\ UNCHANGED <<observer, server, existing, pending, hStops>>

\* self.stop() in SaveWatcher.start's handler: observer.stop() and
\* observer.join(), which waits for the handler that is running. What it
\* raises leaves SaveWatcher.start and is raised again by H3AIAdvisor.start
\* once its finally has run.
WatcherOwnStop ==
    /\ life = "own_stop"
    /\ pc["watcher"] = "idle" /\ wpc = "wait"
    /\ \E raised \in BOOLEAN :
          /\ hStops' = Append(hStops, Stop("self.stop", raised))
          /\ observer' = IF raised THEN observer ELSE "stopped"
          /\ pending' = IF raised THEN "StopError" ELSE pending
    /\ life' = "stop_watcher"
    /\ UNCHANGED <<server, existing>>

\* H3AIAdvisor.stop: try: self.save_watcher.stop() except: pass. join() of an
\* observer that was never started raises RuntimeError.
StopWatcher ==
    /\ life = "stop_watcher"
    /\ observer = "started" => pc["watcher"] = "idle" /\ wpc = "wait"
    /\ \E raised \in BOOLEAN :
          /\ observer = "new" => raised
          /\ hStops' = Append(hStops, Stop("save_watcher.stop", raised))
          /\ observer' = IF raised THEN observer ELSE "stopped"
    /\ life' = "stop_server"
    /\ UNCHANGED <<server, existing, pending>>

\* H3AIAdvisor.stop: try: self.mcp_server.stop() except: pass. MCPServer.stop
\* does nothing without a server; shutdown() waits for the request being
\* served.
StopServer ==
    /\ life = "stop_server"
    /\ server = "serving" => pc["query"] = "idle"
    /\ \E raised \in BOOLEAN :
          /\ server = "none" => ~raised
          /\ hStops' = Append(hStops, Stop("mcp_server.stop", raised))
          /\ server' = IF server = "serving" /\ ~raised THEN "closed" ELSE server
    /\ life' = "stop_display"
    /\ UNCHANGED <<observer, existing, pending>>

\* H3AIAdvisor.stop: self.terminal.display_status("AI Assistant stopped"),
\* after which stop returns and start raises what is pending, if anything
StopDisplay ==
    /\ life = "stop_display"
    /\ life' = "done"
    /\ UNCHANGED <<observer, server, existing, pending, hStops>>

Lifecycle ==
    \/ StartServer \/ ProcessExistingSaves \/ ExistingReturn \/ WatcherStart
    \/ InterruptStart
    \/ InterruptJoin \/ WatcherOwnStop \/ StopWatcher \/ StopServer
    \/ StopDisplay

\* Faulty variant: events are dispatched whatever the observer's state is
ForwardAlways == WatcherCallback

\* the observer's thread runs: a save is parsed and passed to the callback
Forward == observer = "started" /\ WatcherCallback

-----------------------------------------------------------------------------
(* The process *)

\* The process is killed at any point and started again: a new Store is
\* constructed over the same path, from the files as they were left.
Restart ==
    /\ LET e == Construct(cache_file, fs) IN
          /\ store' = IF e.raised THEN "ctor_raised" ELSE "ok"
          /\ _state' = Loaded(e)
          /\ last_update' = e.last_update
          /\ heap' = LoadedHeap(e)
    /\ lock' = Free
    /\ pc' = [t \in Threads |-> "idle"]
    /\ local' = [t \in Threads |-> None]
    /\ hLast' = "construct"
    /\ hValue' = None
    /\ request' = NoRequestLine
    /\ request_data' = NoRequest
    /\ cached_at' = "null"
    /\ response' = NoResponse
    /\ hSeen' = NotSeen
    /\ UNCHANGED <<cache_file, fs>>
    /\ UNCHANGED <<watchVars, lifeVars, docVars>>

Update ==
    \E t \in Updaters :
        \/ UpdateAcquire(t) \/ UpdateSetState(t) \/ UpdateSetTime(t)
        \/ SaveOpen(t) \/ SaveDump(t) \/ SaveReplace(t) \/ SaveFail(t)
        \/ UpdateReturn(t)

GetLatest == \E t \in Readers : GetAcquire(t) \/ GetCopy(t) \/ GetReturn(t)

Clear ==
    \E t \in {"client", "owner"} :
        \/ ClearAcquire(t) \/ ClearState(t) \/ ClearTime(t)
        \/ ClearUnlink(t) \/ ClearUnlinkFail(t) \/ ClearReturn(t)

HttpSteps ==
    \/ QueryStart \/ QueryCheck \/ QueryCachedTest \/ QueryCachedIso
    \/ QueryRespond \/ HttpOther \/ QueryBadBody

\* a step of the HTTP thread leaves the watcher thread's variables alone
Query == HttpSteps /\ UNCHANGED <<watchVars, lifeVars, docVars>>

\* the HTTP thread while serve_forever runs
Serve == server = "serving" /\ Query

\* A step of the Store's methods sends no response, and converts no GameState.
\* The history of what a query read is taken where get_latest() copies the
\* entry; it is kept, with the request, until the step after the response.
Observed ==
    /\ UNCHANGED docVars
    /\ response' = NoResponse
    /\ cached_at' = cached_at
    /\ request' = IF pc["query"] = "idle" THEN NoRequestLine ELSE request
    /\ request_data' = IF pc["query"] = "idle" THEN NoRequest ELSE request_data
    /\ hSeen' = IF pc["query"] = "g_copy" /\ pc'["query"] = "g_release"
                THEN Seen(Deep(_state), last_update)
                ELSE IF pc["query"] = "idle" THEN NotSeen ELSE hSeen

OnStore(A) == A /\ Observed /\ UNCHANGED <<watchVars, lifeVars>>

\* A step of the watcher's handler sends no response either.
OnWatch(A) == A /\ Observed /\ UNCHANGED lifeVars

\* Nor does a step of the main thread, which leaves the Store and the handler
\* alone.
OnMain(A) == A /\ UNCHANGED <<storeVars, watchVars>> /\ Observed

\* The program: the watcher thread and the HTTP thread.
Next ==
    \/ OnStore(WatcherCallback) \/ OnStore(Update) \/ OnStore(GetLatest)
    \/ Query \/ Restart

Spec == Init /\ [][Next]_vars

\* The store under its public methods: the watcher thread's updates and,
\* on another thread, a caller of update / get_latest / clear.
NextApi ==
    \/ OnStore(WatcherCallback) \/ OnStore(Update) \/ OnStore(GetLatest)
    \/ OnStore(Clear) \/ Restart
    \/ OnStore(CallUpdate("client")) \/ OnStore(CallGetLatest("client"))
    \/ OnStore(CallClear("client"))

SpecApi == Init /\ [][NextApi]_vars

\* A caller that keeps its dicts and changes them.
NextAlias ==
    \/ OnStore(CallUpdate("owner")) \/ OnStore(CallGetLatest("owner"))
    \/ OnStore(CallClear("owner"))
    \/ OnStore(Update) \/ OnStore(GetLatest) \/ OnStore(Clear)
    \/ OnStore(OwnerMutateTop) \/ OnStore(OwnerMutateNested)

SpecAlias == Init /\ [][NextAlias]_vars

\* update() while the cache file can be written
UpdateSaved ==
    \E t \in Updaters :
        \/ UpdateAcquire(t) \/ UpdateSetState(t) \/ UpdateSetTime(t)
        \/ SaveOpen(t) \/ SaveDump(t) \/ SaveReplace(t) \/ UpdateReturn(t)

\* The Query Service next to the watcher thread's updates, while the cache file
\* can be written.
NextServe ==
    \/ OnStore(WatcherCallback) \/ OnStore(UpdateSaved) \/ OnStore(GetLatest)
    \/ Query

SpecServe == Init /\ [][NextServe]_vars

\* The Query Service next to the watcher thread's updates and a caller of
\* clear().
NextClear ==
    \/ OnStore(WatcherCallback) \/ OnStore(UpdateSaved) \/ OnStore(GetLatest)
    \/ OnStore(CallClear("client")) \/ OnStore(Clear)
    \/ Query

SpecClear == Init /\ [][NextClear]_vars

\* The watcher thread alone: the events of the save directory, each handled to
\* the end of the coordinator's callback.
NextWatch == OnWatch(OnModified) \/ OnStore(UpdateSaved)

SpecWatch == Init /\ [][NextWatch]_vars

\* The coordinator from start to stop, with the watcher's updates of the Store
\* while it watches and the HTTP thread while the server serves.
NextApp ==
    \/ OnMain(Lifecycle)
    \/ OnStore(life = "join" /\ Forward)
    \/ OnStore(UpdateSaved)
    \/ OnStore(GetLatest)
    \/ Serve

SpecApp == Init /\ [][NextApp]_vars

\* The coordinator from start to stop with the watcher's updates of the Store,
\* without requests.
NextLife ==
    \/ OnMain(Lifecycle)
    \/ OnStore(Forward)
    \/ OnStore(UpdateSaved)

SpecLife == Init /\ [][NextLife]_vars

\* H3AIAdvisor.start up to the watch loop
Startup == StartServer \/ ProcessExistingSaves \/ ExistingReturn \/ WatcherStart

\* The start of the program, and the events the observer delivers once it was
\* started.
NextStart ==
    \/ OnMain(Startup)
    \/ OnWatch(observer = "started" /\ OnModified)
    \/ OnStore(UpdateSaved)

SpecStart == Init /\ [][NextStart]_vars

\* GameState.to_dict, applied to every instance
NextDoc == ToDict /\ UNCHANGED <<storeVars, httpVars, watchVars, lifeVars>>

SpecDoc == InitDoc /\ [][NextDoc]_vars

-----------------------------------------------------------------------------
(* Properties *)

\* the places of a thread inside a `with self._lock` block
BodyPcs ==
    {"u_state", "u_time", "s_open", "s_dump", "s_replace", "u_release",
     "g_copy", "g_release",
     "c_state", "c_time", "c_unlink", "c_release"}

InBody(t) == pc[t] \in BodyPcs

\* the places from which the next step reads or writes _state or last_update
AccessPcs ==
    {"u_state", "u_time", "s_dump", "g_copy", "c_state", "c_time",
     "q_cached_test", "q_cached_iso"}

\* the entry was last written by an update
ByUpdate == hLast \in {"update", "saved", "unsaved"}

\* thread t is about to return from get_latest(), with its value in local[t]
Returning(t) == pc[t] = "g_release"

\* what get_latest() would return now, as a value
Latest == Deep(GetLatestValue(_state))

\* a complete {state, last_update} document
Complete(f) == f.kind = "file" /\ JsonLoad(f.data).ok /\ JsonLoad(f.data).object

\* a file that is not valid JSON, not a JSON object, carries an unparsable
\* last_update, or cannot be read
Corrupt(f) ==
    \/ f.kind = "unreadable"
    \/ /\ f.kind = "file"
       /\ LET j == JsonLoad(f.data) IN
             \/ ~j.ok
             \/ ~j.object
             \/ j.last_update # "null" /\ ~IsIso(j.last_update)

\* C1: a get_latest() that follows updates (no clear since) returns a value
\* equal to the snapshot of the latest update, never an earlier one.
C1_ReadAfterWrite ==
    \A t \in Readers : Returning(t) /\ ByUpdate => Deep(local[t]) = hValue

\* C2: what get_latest() returns changes only in a step of update() or clear(),
\* never because a caller changed a dict it passed or got.
C2_NoAliasing ==
    [][Latest' # Latest =>
          \E t \in Threads : pc[t] \in {"u_state", "c_state"} /\ pc'[t] # pc[t]]_vars

\* C3: no two threads are inside the bodies of update(), get_latest() or
\* clear() at the same time.
C3_MutualExclusion ==
    \A t, u \in Threads : t # u => ~(InBody(t) /\ InBody(u))

C3_Witness ==
    /\ pc["watcher"] = "s_dump"
    /\ lock = "watcher"
    /\ pc["client"] = "c_acquire"

\* C4: a thread reads or writes the entry or the timestamp only while it holds
\* the Store's lock.
C4_AccessUnderLock ==
    \A t \in Threads : pc[t] \in AccessPcs => lock = t

\* C5: after an update(s) whose save failed, the entry is s, it has a
\* timestamp, and get_latest() returns s.
C5_FailedSaveKeepsEntry ==
    hLast = "unsaved" =>
        /\ Deep(_state) = hValue
        /\ last_update # NoTime
        /\ \A t \in Readers : Returning(t) => Deep(local[t]) = hValue

\* C6: no step leaves a partial document at the cache path: a file there that
\* is absent or complete stays absent or complete.
C6_TargetNeverPartial ==
    [][cache_file # NoPath /\ (~Exists(fs[cache_file]) \/ Complete(fs[cache_file]))
          => (~Exists(fs'[cache_file]) \/ Complete(fs'[cache_file]))]_vars

\* C7: once an update has saved, a Store constructed from the same path has
\* the same get_latest() value and the same timestamp as this one.
C7_RoundTrip ==
    hLast = "saved" =>
        LET e == Construct(cache_file, fs) IN
            /\ ~e.raised
            /\ GetLatestValue(e.state) = Latest
            /\ e.last_update = last_update

C7_Witness ==
    /\ hLast = "saved"
    /\ cache_file = Path("cache", ".json")
    /\ Truthy(_state) /\ _state.turn = 2
    /\ Complete(fs[cache_file])
    /\ Returning("client")
    /\ Truthy(local["client"]) /\ local["client"].turn = 2

C9_ClearEmpties ==
    /\ hLast = "cleared" =>
          /\ _state = None
          /\ last_update = NoTime
          /\ cache_file # NoPath => ~Exists(fs[cache_file])
          /\ Construct(cache_file, fs) = EmptyEntry
          /\ \A t \in Readers : Returning(t) => local[t] = None
    /\ \A t, u \in Threads :
          pc[t] \in {"g_copy", "g_release"} => pc[u] \notin {"c_time", "c_unlink"}

C9_Witness ==
    /\ hLast = "cleared"
    /\ cache_file = Path("cache", ".json")
    /\ Returning("client")
    /\ local["client"] = None
    /\ pc["watcher"] = "u_acquire"

\* C10: get_latest() returns None exactly when the Store holds no entry.
C10_EmptyIffNoEntry ==
    \A t \in Readers : Returning(t) => (local[t] = None <=> _state = None)

\* a response of POST /query/snapshot to a body that is a JSON object, with
\* the history of what its get_latest() found
Answered == response # NoResponse /\ hSeen.read /\ request_data.object

\* C16: a query that finds the Store without an entry is answered with status
\* 200 and the payload {error: "No game state available", message}, which has
\* no data and no success key, whatever turn the body names.
C16_NoEntryPayload ==
    Answered /\ ~hSeen.entry =>
        /\ response.status = 200
        /\ response.keys = {"error", "message"}
        /\ response.error = "No game state available"

C16_Witness ==
    /\ Answered /\ ~hSeen.entry
    /\ request_data.turn = 1
    /\ Truthy(_state)

\* C17: a query that finds a snapshot of turn t is answered with an
\* {error, message} payload without data when the body names another turn, and
\* with {success, data, metadata}, data being the snapshot found, when it names
\* no turn or t.
C17_TurnCheck ==
    Answered /\ Truthy(hSeen.value) =>
        IF request_data.turn \notin {NoTurn, hSeen.value.turn}
        THEN /\ response.keys = {"error", "message"}
             /\ response.error = "Turn not available"
        ELSE /\ response.keys = {"success", "data", "metadata"}
             /\ response.status = 200
             /\ response.data = hSeen.value

C17_Witness ==
    /\ Answered /\ Truthy(hSeen.value)
    /\ request_data.turn = 2 /\ hSeen.value.turn = 2
    /\ response.data = hSeen.value
    /\ Truthy(_state) /\ _state.turn = 1

\* C18: no step of the Query Service, on any route and with any outcome,
\* changes the Store's entry, its timestamp or the files.
C18_QueryNeverWrites ==
    [][Query \/ (\E t \in {"query"} : GetAcquire(t) \/ GetCopy(t) \/ GetReturn(t))
          => /\ DeepIn(_state', heap') = Deep(_state)
             /\ last_update' = last_update
             /\ fs' = fs]_vars

C18_Witness ==
    /\ response.keys = {"success", "data", "metadata"}
    /\ cache_file # NoPath
    /\ Complete(fs[cache_file])
    /\ hLast = "saved"

-----------------------------------------------------------------------------
(* The watcher's handler *)

\* on_modified is about to return for an event
Handled == wpc = "m_done"

\* the event is for a file with a save-file extension
ForSaveFile == ~event.is_directory /\ IsSaveFile(event.src_path)

\* the parser was invoked for an earlier event for the same path, and the clock
\* was read for this one
Second == ForSaveFile /\ hEv.prev # NoTime /\ hEv.now # NoTime

\* C11: of two modification events for the same save-file path, the earlier one
\* parsed, the later one is not parsed when it arrives less than the debounce
\* window after it (one parser invocation for the two) and is parsed once when
\* it arrives more than the window after it (two invocations).
C11_Debounce ==
    Handled /\ Second =>
        /\ hEv.now - hEv.prev < DebounceTicks => 1 + hEv.parses = 1
        /\ hEv.now - hEv.prev > DebounceTicks => 1 + hEv.parses = 2

\* a second event half a second after the first has been handled unparsed
C11_Witness ==
    /\ Handled /\ Second
    /\ hEv.now - hEv.prev = 1
    /\ hEv.parses = 0


\* the event came less than the debounce window after the last one that was
\* let through for its path
Debounced == hEv.prev # NoTime /\ hEv.now - hEv.prev < DebounceTicks

\* the Store is as it was when the event arrived
StoreAsBefore == <<Deep(_state), last_update, fs>> = hEv.before

\* the event is for a file whose extension is one of .gm1 .. .gm6 written in
\* small or in capital letters
Qualifying ==
    /\ ~event.is_directory
    /\ event.src_path.suffix \in
          SaveSuffixes \cup {".GM1", ".GM2", ".GM3", ".GM4", ".GM5", ".GM6"}

\* C12: an event for a directory, or for a path whose extension in lower case
\* is not one of .gm1 .. .gm6, is handled without the parser, the callback or
\* the Store; an event for a file with such an extension in any letter case
\* that is not debounced is parsed exactly once.
C12_Filter ==
    Handled =>
        /\ ~Qualifying =>
              /\ hEv.parses = 0
              /\ hEv.calls = <<>>
              /\ StoreAsBefore
        /\ Qualifying /\ ~Debounced => hEv.parses = 1

\* an event for a file with the extension .GM3 has been parsed
C12_Witness ==
    /\ Handled /\ Qualifying
    /\ event.src_path.suffix = ".GM3"
    /\ hEv.parses = 1


\* the parser has been invoked for the event and has failed
ParseFailed == hEv.parses = 1 /\ game_state = NoSnapshot

\* the calls of the coordinator's callback for one snapshot, with the advice
\* there is or with none
Forwarded ==
    {<<"update", "get_advice", "display_advice">>,
     <<"update", "get_advice", "display_status">>}

\* the handler is at the test of what the parser returned, or about to return
PastParser == wpc \in {"m_result", "m_done"}

\* C13: when the parser fails the handler goes on to return to the watch loop,
\* and after a failure an event that qualifies and is not debounced is still
\* parsed once and, when the parser succeeds, forwarded: the callback runs and
\* the Store holds the snapshot.
C13_FailureKeepsWatching ==
    /\ ParseFailed => PastParser
    /\ hEv.failed /\ Handled /\ Qualifying /\ ~Debounced =>
          /\ hEv.parses = 1
          /\ ~ParseFailed =>
                /\ hEv.calls \in Forwarded
                /\ _state # None
                /\ DeepIn(_state, heap).turn = game_state.turn

\* after a failure, a later event has been parsed and forwarded
C13_Witness ==
    /\ hEv.failed /\ Handled /\ Qualifying
    /\ hEv.parses = 1
    /\ game_state # NoSnapshot
    /\ hEv.calls \in Forwarded


\* C14: when the parser has failed for an event, the handler returns with
\* nothing written to standard output, no call made from the callback (no Store
\* update, no request for advice, no display), and the Store's entry, timestamp
\* and files as they were when the event arrived.
C14_FailureDropsEvent ==
    Handled /\ ParseFailed =>
        /\ hEv.stdout = 0
        /\ hEv.calls = <<>>
        /\ StoreAsBefore

\* the parser has failed for an event that came when the Store held a snapshot
C14_Witness ==
    /\ Handled /\ ParseFailed
    /\ hEv.before[1] # None
    /\ hEv.before[2] # NoTime


-----------------------------------------------------------------------------
(* The coordinator's callback *)

\* the Store's update has returned and the Store holds the handler's snapshot
StoreHolds ==
    /\ Idle("watcher")
    /\ _state # None
    /\ _state.keys = {"turn", "heroes"}
    /\ _state.turn = game_state.turn
    /\ last_update # NoTime

\* C20: for a snapshot passed to the callback the calls are, in this order, one
\* Store update, one get_advice and one display: of the advice if there is
\* one, of the waiting status otherwise; from the call of get_advice on, the
\* update has returned and the Store holds the snapshot.
C20_CallbackOrder ==
    /\ Len(hEv.calls) >= 2 =>
          /\ hEv.calls[1] = "update"
          /\ hEv.calls[2] = "get_advice"
          /\ StoreHolds
    /\ Handled /\ hEv.stdout = 1 =>
          hEv.calls = <<"update", "get_advice",
                        IF advice = "advice" THEN "display_advice"
                        ELSE "display_status">>

\* the callback has shown the advice for a snapshot that replaced another
C20_Witness ==
    /\ Handled
    /\ hEv.calls = <<"update", "get_advice", "display_advice">>
    /\ hEv.before[1] # None
    /\ hEv.before[1].turn # game_state.turn
    /\ StoreHolds


-----------------------------------------------------------------------------
(* The coordinator's start and shutdown *)

\* process_existing_saves has parsed a save and the watch loop has not begun
ExistingParsed == life = "existing_done" /\ existing.game_state # NoSnapshot

\* C15: once process_existing_saves has parsed an existing save, and before
\* the watch loop begins, the Store holds the snapshot of that save and a
\* POST /query/snapshot naming no turn is answered with it.
C15_ExistingForwarded ==
    ExistingParsed =>
        /\ Truthy(_state) /\ _state.turn = existing.game_state.turn
        /\ Answered /\ request_data.turn = NoTurn =>
              /\ response.keys = {"success", "data", "metadata"}
              /\ response.data.turn = existing.game_state.turn

\* H3AIAdvisor.stop has returned
Stopped == life = "done"

\* the last two stop calls: those of H3AIAdvisor.stop
LastStops == SubSeq(hStops, Len(hStops) - 1, Len(hStops))

\* C19: however start is left, H3AIAdvisor.stop runs to its end, having called
\* the watcher's stop and then the server's stop, whether or not the watcher's
\* stop raised; and nothing a stop raised is raised by the coordinator.
C19_Shutdown ==
    Stopped =>
        /\ Len(hStops) >= 2
        /\ LastStops[1].call = "save_watcher.stop"
        /\ LastStops[2].call = "mcp_server.stop"
        /\ pending # "StopError"


-----------------------------------------------------------------------------
(* The routes of the Query Service *)

\* the last step has finished the handling of a request, with a response or by
\* raising
Finished == request # NoRequestLine /\ response # NoResponse

\* the request is one of the three the service knows
KnownRoute ==
    <<request.command, request.path>> \in
        { <<"GET", "/manifest">>, <<"GET", "/schema/snapshot.json">>,
          <<"POST", "/query/snapshot">> }

\* the request is a POST of /query/snapshot whose body has been looked at
QueryPosted ==
    /\ request.command = "POST" /\ request.path = "/query/snapshot"
    /\ request.body # Unread

\* C22: a request whose command and path are not one of the three known
\* routes is answered with status 404.
C22_UnknownRoutes404 ==
    Finished /\ ~KnownRoute => response.status = 404

\* C23: a POST of /query/snapshot whose body json.loads cannot be given, or
\* does not accept, is answered with status 400 and no payload, the Store not
\* having been read.
C23_MalformedBody400 ==
    Finished /\ QueryPosted
             /\ (~Decodes(request.body) \/ ~JsonLoads(request.body).ok) =>
        /\ response.status = 400
        /\ response.keys = {}
        /\ ~hSeen.read

\* C24: whatever the Store holds and whatever the body is, the handling of a
\* POST of /query/snapshot ends with a response of status 200 or 400.
C24_QueryNeverRaises ==
    Finished /\ QueryPosted => response.status \in {200, 400}

\* C25: GET /manifest and GET /schema/snapshot.json are answered with the same
\* two documents whatever the Store holds and whatever the watcher is doing.
C25_StaticDocuments ==
    Finished /\ request.command = "GET" =>
        /\ request.path = "/manifest" => response = Manifest
        /\ request.path = "/schema/snapshot.json" => response = Schema

\* the manifest has been served while the watcher was inside an update of a
\* Store that held a snapshot
C25_Witness ==
    /\ Finished
    /\ request = Request("GET", "/manifest", Unread)
    /\ response = Manifest
    /\ lock = "watcher"
    /\ Truthy(_state)


\* C30: in a success response, cached_at is the timestamp that was in the
\* Store, set by the same update, when get_latest() copied the data returned.
C30_SameUpdate ==
    Finished /\ hSeen.read /\ response.keys = {"success", "data", "metadata"} =>
        response.cached_at =
            IF hSeen.at = NoTime THEN "null" ELSE IsoFormat(hSeen.at)


-----------------------------------------------------------------------------
(* The debounce rule *)

\* the handler has returned without invoking the parser
Discarded == hEv.parses = 0

\* C26: a qualifying event is discarded exactly when the parser was invoked
\* for the same path less than the debounce window before it; the time kept
\* for the path is then the one that was kept, and otherwise the time of this
\* event.
C26_DebounceRule ==
    Handled /\ Qualifying =>
        /\ Discarded <=> Debounced
        /\ last_modified[event.src_path] =
              IF Discarded THEN hEv.prev ELSE hEv.now

\* an event exactly one window after the last accepted one has been accepted,
\* while another path had an event accepted in between
C26_Witness ==
    /\ Handled /\ Qualifying
    /\ hEv.prev # NoTime
    /\ hEv.now - hEv.prev = DebounceTicks
    /\ ~Discarded
    /\ \E p \in EventPaths :
          /\ p # event.src_path
          /\ last_modified[p] # NoTime
          /\ hEv.now - last_modified[p] < DebounceTicks

\* C27: the parser is invoked at most once for an event, and an event for a
\* path for which the last invocation of the parser failed is parsed.
C27_NextWriteParsed ==
    /\ hEv.parses <= 1
    /\ Handled /\ Qualifying /\ hEv.prevFailed => hEv.parses = 1


-----------------------------------------------------------------------------
(* The watcher's lifecycle *)

\* a stop of the watcher has just returned without raising
WatcherStopReturned ==
    /\ Len(hStops') = Len(hStops) + 1
    /\ hStops'[Len(hStops')].call \in {"self.stop", "save_watcher.stop"}
    /\ ~hStops'[Len(hStops')].raised

\* the watcher thread has just entered the callback for an event
Dispatched == pc["watcher"] = "idle" /\ pc'["watcher"] # "idle"

-----------------------------------------------------------------------------
(* The saves found at startup *)

\* the files of a directory whose name ends in .gm1 or .GM1 (autosave_*.gm1
\* names no file that *.gm1 does not)
Matching(dir) ==
    {f \in DirFiles : dir[f] # NoTime /\ f.suffix \in {".gm1", ".GM1"}}

\* process_existing_saves has run and has not returned
ExistingDone == life = "existing_done"

\* the event handled is the first one for the file process_existing_saves
\* parsed
FirstLive ==
    /\ Handled
    /\ ~event.is_directory
    /\ existing.parses > 0
    /\ event.src_path = existing.latest_save
    /\ hEv.prev = NoTime

\* C28: process_existing_saves invokes the parser not at all when no file of
\* the directory matches one of its patterns, and otherwise once, on a
\* matching file none of which was modified later, also when the file matches
\* several patterns; it leaves the debounce map as it was, and the first live
\* event for the file it parsed is parsed.
C28_ExistingSaves ==
    /\ existing.parses <= 1
    /\ ExistingDone =>
          LET matching == Matching(existing.dir) IN
          /\ matching = {} =>
                existing.parses = 0 /\ existing.latest_save = NoPath
          /\ matching # {} =>
                /\ existing.parses = 1
                /\ existing.latest_save \in matching
                /\ \A g \in matching :
                      existing.dir[g] <= existing.dir[existing.latest_save]
          /\ \A p \in EventPaths : last_modified[p] = NoTime
    /\ FirstLive => hEv.parses = 1

\* an autosave, which two patterns match, was the latest of three saves and
\* was parsed once
C28_Witness ==
    /\ ExistingDone
    /\ existing.latest_save = Path("autosave_1", ".gm1")
    /\ existing.parses = 1
    /\ Cardinality(Matching(existing.dir)) = 3
    /\ \A g \in Matching(existing.dir) \ {existing.latest_save} :
          existing.dir[g] < existing.dir[existing.latest_save]

-----------------------------------------------------------------------------
(* Snapshot documents and the schema *)

\* to_dict has returned
Converted == document # NoDocument

\* C29: every document GameState.to_dict returns has the keys the schema
\* requires at the top level, and each of its hero records has the keys the
\* schema requires of a hero, under those names.
C29_SchemaRequired ==
    Converted =>
        /\ SchemaRequired \subseteq document.keys
        /\ \A i \in DOMAIN document.heroes :
              HeroRequired \subseteq document.heroes[i]

-----------------------------------------------------------------------------
(* Queries next to clear() *)

\* C31: handle_query, given a JSON object, returns a payload whatever the
\* other threads do to the Store meanwhile: the handling of the request ends
\* with a response, never by raising.
C31_QueryReturnsUnderClear ==
    Finished /\ QueryPosted /\ request_data.object => response # NoReply

-----------------------------------------------------------------------------
(* The entry and its timestamp *)

\* C32: whenever no operation holds the lock, the Store has an entry exactly
\* when it has a last-update timestamp; this holds from construction (with no
\* file, or over whatever file is at the cache path) through every update()
\* and clear(), and in a Store constructed again over the files they left.
C32_EntryWithTimestamp ==
    lock = Free => (_state = None <=> last_update = NoTime)

\* clear() has emptied a Store with a cache file, removed the file, and has
\* returned
C32_Witness ==
    /\ lock = Free
    /\ hLast = "cleared"
    /\ cache_file # NoPath /\ ~Exists(fs[cache_file])
    /\ _state = None /\ last_update = NoTime


=============================================================================
